---- MODULE Spec2Model ----
(***************************************************************************)
(* Model of kubernetesjs: the configuration resolver (static helpers of    *)
(* APIClient) and the transport client (APIClient.request and the verb     *)
(* helpers) of packages/kubernetesjs/src/client.ts.                        *)
(*                                                                         *)
(* Strings are TLC strings.  A value that may be undefined is an option    *)
(* record: None is undefined, Some(v) is the value v.  File contents are   *)
(* sequences of one-character strings so that trim() is computed.          *)
(***************************************************************************)
EXTENDS Integers, Sequences, FiniteSets, TLC

VARIABLES
    hasProcess,   \* typeof process !== 'undefined' && process.env
    env,          \* process.env: the three variables detectEndpoint reads
    hasFs,        \* require('node:fs') succeeds
    files,        \* the filesystem: path -> file state
    call,         \* the static helper called last, with its arguments
    ret,          \* what that helper returned or threw
    config,       \* the APIClientOptions the client was constructed with
    client,       \* the private fields of the APIClient instance
    calls,        \* the request() invocations of the client
    argv,         \* the parsed command line of the apply command
    manifest,     \* the manifest file: its state and what readYamlFile yields
    run           \* the apply command handler: position, log, operations

resolverVars == <<hasProcess, env, hasFs, files, call, ret>>
clientVars == <<config, client, calls>>
applyVars == <<argv, manifest, run>>
vars == <<hasProcess, env, hasFs, files, call, ret, config, client, calls,
          argv, manifest, run>>

----------------------------------------------------------------------------
(* Optional values                                                         *)

None == [some |-> FALSE, val |-> ""]
Some(v) == [some |-> TRUE, val |-> v]

\* JavaScript truthiness of a string | undefined
Truthy(o) == o.some /\ o.val # ""

----------------------------------------------------------------------------
(* Bounds                                                                  *)

\* longest token file content, in characters
MaxLen == 3

----------------------------------------------------------------------------
(* Program constants                                                       *)

SA_TOKEN_PATH == "/var/run/secrets/kubernetes.io/serviceaccount/token"
DEFAULT_ENDPOINT == "http://127.0.0.1:8001"

----------------------------------------------------------------------------
(* Inputs of the resolver                                                  *)

OtherPath == "/tmp/token"
Paths == {SA_TOKEN_PATH, OtherPath}

Chars == {" ", "\n", "t"}
IsWhitespace(c) == c \in {" ", "\n"}

RECURSIVE SeqsUpTo(_)
SeqsUpTo(n) ==
    IF n = 0 THEN {<<>>}
    ELSE LET shorter == SeqsUpTo(n - 1)
         IN  shorter \cup {Append(s, c) : s \in shorter, c \in Chars}

\* a file is missing, unreadable (EACCES, EISDIR), or holds characters
Missing == [kind |-> "missing", content |-> <<>>]
Denied == [kind |-> "denied", content |-> <<>>]
Readable(s) == [kind |-> "readable", content |-> s]
TokenFileStates == {Missing, Denied} \cup {Readable(s) : s \in SeqsUpTo(MaxLen)}
OtherFileStates == {Missing, Readable(<<"t", " ">>)}

ApiUrlValues == {None, Some(""), Some("https://k8s.example:6443"), Some(DEFAULT_ENDPOINT)}
HostValues == {None, Some(""), Some("10.96.0.1")}
PortValues == {None, Some(""), Some("6443")}
NoEnv == [KUBERNETES_API_URL |-> None, KUBERNETES_SERVICE_HOST |-> None,
          KUBERNETES_SERVICE_PORT |-> None]

\* the fallback argument: omitted, a proxy URL, or the empty string
FallbackArgs == {None, Some("http://localhost:9000"), Some("")}
PathArgs == {None, Some(SA_TOKEN_PATH), Some(OtherPath)}

----------------------------------------------------------------------------
(* Config resolver: the static helpers                                     *)

RECURSIVE Join(_)
Join(s) == IF s = <<>> THEN "" ELSE Head(s) \o Join(Tail(s))

RECURSIVE TrimStart(_)
TrimStart(s) ==
    IF s # <<>> /\ IsWhitespace(Head(s)) THEN TrimStart(Tail(s)) ELSE s

RECURSIVE TrimEnd(_)
TrimEnd(s) ==
    IF s # <<>> /\ IsWhitespace(s[Len(s)])
    THEN TrimEnd(SubSeq(s, 1, Len(s) - 1)) ELSE s

\* String.prototype.trim
trim(s) == TrimEnd(TrimStart(s))

\* a default parameter: the default replaces an omitted argument only
DefaultParam(arg, default) == IF arg.some THEN arg.val ELSE default

detectEndpoint_NullishHost(hp, e, fallbackArg) ==
    LET fallback == DefaultParam(fallbackArg, DEFAULT_ENDPOINT)
    IN  IF hp /\ Truthy(e.KUBERNETES_API_URL) THEN e.KUBERNETES_API_URL.val
        ELSE IF hp /\ e.KUBERNETES_SERVICE_HOST.some
        THEN "https://" \o e.KUBERNETES_SERVICE_HOST.val \o ":"
             \o DefaultParam(e.KUBERNETES_SERVICE_PORT, "443")
        ELSE fallback

detectEndpoint(hp, e, fallbackArg) ==
    LET fallback == DefaultParam(fallbackArg, DEFAULT_ENDPOINT)
    IN  IF hp /\ Truthy(e.KUBERNETES_API_URL) THEN e.KUBERNETES_API_URL.val
        ELSE IF hp /\ Truthy(e.KUBERNETES_SERVICE_HOST)
        THEN "https://" \o e.KUBERNETES_SERVICE_HOST.val \o ":"
             \o DefaultParam(e.KUBERNETES_SERVICE_PORT, "443")
        ELSE fallback

\* fs.readFileSync(path, 'utf-8'): the contents, or a throw
readFileSync(fsOk, f, path) ==
    IF fsOk /\ f[path].kind = "readable"
    THEN [threw |-> FALSE, content |-> f[path].content]
    ELSE [threw |-> TRUE, content |-> <<>>]

readServiceAccountToken_NoTrim(fsOk, f, pathArg) ==
    LET r == readFileSync(fsOk, f, DefaultParam(pathArg, SA_TOKEN_PATH))
    IN  IF r.threw THEN None ELSE Some(Join(r.content))

readServiceAccountToken(fsOk, f, pathArg) ==
    LET r == readFileSync(fsOk, f, DefaultParam(pathArg, SA_TOKEN_PATH))
    IN  IF r.threw THEN None ELSE Some(Join(trim(r.content)))

\* what a config helper gives back: a thrown Error or an APIClientOptions
Thrown(msg) == [threw |-> TRUE, message |-> msg, restEndpoint |-> "", token |-> None]
Options(endpoint, tok) ==
    [threw |-> FALSE, message |-> "", restEndpoint |-> endpoint, token |-> tok]

getInClusterConfig_NoEndpointCheck(hp, e, fsOk, f) ==
    LET restEndpoint == detectEndpoint(hp, e, None)
        token == readServiceAccountToken(fsOk, f, None)
    IN  IF ~Truthy(token) THEN Thrown("service account token not found")
        ELSE Options(restEndpoint, token)

getInClusterConfig(hp, e, fsOk, f) ==
    LET restEndpoint == detectEndpoint(hp, e, None)
        token == readServiceAccountToken(fsOk, f, None)
    IN  IF ~Truthy(token) THEN Thrown("service account token not found")
        ELSE IF restEndpoint = DEFAULT_ENDPOINT
        THEN Thrown("KUBERNETES_SERVICE_HOST is not set")
        ELSE Options(restEndpoint, token)

getDefaultConfig_KeepToken(hp, e, fsOk, f, fallbackArg) ==
    LET r == getInClusterConfig(hp, e, fsOk, f)
    IN  IF r.threw
        THEN Options(DefaultParam(fallbackArg, DEFAULT_ENDPOINT),
                     readServiceAccountToken(fsOk, f, None))
        ELSE r

getDefaultConfig(hp, e, fsOk, f, fallbackArg) ==
    LET r == getInClusterConfig(hp, e, fsOk, f)
    IN  IF r.threw
        THEN Options(DefaultParam(fallbackArg, DEFAULT_ENDPOINT), None)
        ELSE r

----------------------------------------------------------------------------
(* The resolver as a state machine: the environment and the filesystem are *)
(* read-only; each action is one call of a static helper.                  *)

NoCall == [op |-> "none", fallback |-> None, path |-> None]
NoRet == [threw |-> FALSE, message |-> "", str |-> None,
          restEndpoint |-> "", token |-> None]
RetString(o) == [threw |-> FALSE, message |-> "", str |-> o,
                 restEndpoint |-> "", token |-> None]
RetConfig(r) == [threw |-> r.threw, message |-> r.message, str |-> None,
                 restEndpoint |-> r.restEndpoint, token |-> r.token]

IdleClient == [baseUrl |-> "", defaultTimeout |-> 0, defaultToken |-> None,
               defaultHeaders |-> <<>>]
IdleConfig == [restEndpoint |-> "", token |-> None]

\* the apply command has not been started
IdleArgv == [f |-> None, n |-> None, namespace |-> None]
IdleManifest == [file |-> "missing"]
IdleRun == [pc |-> "idle"]

InitResolver ==
    /\ hasProcess \in BOOLEAN
    /\ env \in IF hasProcess
               THEN [KUBERNETES_API_URL : ApiUrlValues,
                     KUBERNETES_SERVICE_HOST : HostValues,
                     KUBERNETES_SERVICE_PORT : PortValues]
               ELSE {NoEnv}
    /\ hasFs \in BOOLEAN
    /\ files \in IF hasFs
                 THEN {[p \in Paths |-> IF p = SA_TOKEN_PATH THEN t ELSE o] :
                          t \in TokenFileStates, o \in OtherFileStates}
                 ELSE {[p \in Paths |-> Missing]}
    /\ call = NoCall
    /\ ret = NoRet
    /\ config = IdleConfig
    /\ client = IdleClient
    /\ calls = <<>>
    /\ argv = IdleArgv
    /\ manifest = IdleManifest
    /\ run = IdleRun

CallDetectEndpoint ==
    \E fb \in FallbackArgs :
        /\ call' = [op |-> "detectEndpoint", fallback |-> fb, path |-> None]
        /\ ret' = RetString(Some(detectEndpoint(hasProcess, env, fb)))
        /\ UNCHANGED <<hasProcess, env, hasFs, files, clientVars, applyVars>>

CallReadServiceAccountToken ==
    \E p \in PathArgs :
        /\ call' = [op |-> "readServiceAccountToken", fallback |-> None, path |-> p]
        /\ ret' = RetString(readServiceAccountToken(hasFs, files, p))
        /\ UNCHANGED <<hasProcess, env, hasFs, files, clientVars, applyVars>>

CallGetInClusterConfig ==
    /\ call' = [op |-> "getInClusterConfig", fallback |-> None, path |-> None]
    /\ ret' = RetConfig(getInClusterConfig(hasProcess, env, hasFs, files))
    /\ UNCHANGED <<hasProcess, env, hasFs, files, clientVars, applyVars>>

CallGetDefaultConfig ==
    \E fb \in FallbackArgs :
        /\ call' = [op |-> "getDefaultConfig", fallback |-> fb, path |-> None]
        /\ ret' = RetConfig(getDefaultConfig(hasProcess, env, hasFs, files, fb))
        /\ UNCHANGED <<hasProcess, env, hasFs, files, clientVars, applyVars>>

NextResolver ==
    \/ CallDetectEndpoint
    \/ CallReadServiceAccountToken
    \/ CallGetInClusterConfig
    \/ CallGetDefaultConfig

SpecResolver == InitResolver /\ [][NextResolver]_vars

----------------------------------------------------------------------------
(* Transport client: construction                                          *)

\* an undefined number, an undefined header object
NoNum == [some |-> FALSE, val |-> 0]
NoHeaders == [some |-> FALSE, val |-> <<>>]

\* a ?? b and a || b on number | undefined
Nullish(a, b) == IF a.some THEN a.val ELSE b
OrNum_Nullish(a, b) == IF a.some THEN a.val ELSE b
OrNum(a, b) == IF a.some /\ a.val # 0 THEN a.val ELSE b

\* Object.assign(target, source), { ...target, ...source }
ObjectAssign_TargetWins(target, source) ==
    [k \in (DOMAIN target) \cup (DOMAIN source) |->
        IF k \in DOMAIN target THEN target[k] ELSE source[k]]

ObjectAssign(target, source) ==
    [k \in (DOMAIN target) \cup (DOMAIN source) |->
        IF k \in DOMAIN source THEN source[k] ELSE target[k]]

APIClient(options) ==
    [baseUrl |-> options.restEndpoint,
     defaultTimeout |-> Nullish(options.timeout, 10000),
     defaultToken |-> options.token,
     defaultHeaders |-> IF options.headers.some THEN options.headers.val ELSE <<>>]

\* the options the modelled clients are constructed with
TokenOptions == {None, Some(""), Some("tok")}
HeaderOptions ==
    {NoHeaders,
     Some([k \in {"X", "Y"} |-> IF k = "X" THEN "a" ELSE "c"]),
     Some([k \in {"Authorization"} |-> "Basic d"])}
TimeoutOptions == {NoNum, Some(5000)}
ClientOptions ==
    [restEndpoint : {DEFAULT_ENDPOINT}, token : TokenOptions,
     headers : HeaderOptions, timeout : TimeoutOptions]

----------------------------------------------------------------------------
(* Transport client: the arguments of a call                               *)

Verbs == {"get", "post", "put", "patch", "delete"}
MethodOf(verb) ==
    CASE verb = "get" -> "GET"
      [] verb = "post" -> "POST"
      [] verb = "put" -> "PUT"
      [] verb = "patch" -> "PATCH"
      [] verb = "delete" -> "DELETE"

\* a body value: undefined, an object, or a value JSON.stringify rejects
\* (a circular structure, a BigInt)
\* an object is the sequence of its <<key, value>> members, a string its text
BodyUndefined == [kind |-> "undefined", fields |-> <<>>, text |-> ""]
BodyObject == [kind |-> "object", fields |-> << <<"kind", "Pod">> >>, text |-> ""]
BodyCircular == [kind |-> "circular", fields |-> <<>>, text |-> ""]
BodyString(t) == [kind |-> "string", fields |-> <<>>, text |-> t]
BodyValues == {BodyUndefined, BodyObject, BodyCircular}
BodiesOf(verb) == IF verb \in {"get", "delete"} THEN {BodyUndefined} ELSE BodyValues

\* opts.headers and opts.timeout of a call
OptsHeaders ==
    {NoHeaders,
     Some([k \in {"X"} |-> "b"]),
     Some([k \in {"authorization"} |-> "Basic u"]),
     Some([k \in {"Authorization"} |-> "Basic u"])}
OptsTimeouts == {NoNum, Some(2000)}
RequestOpts == [headers : OptsHeaders, timeout : OptsTimeouts, isFormData : {FALSE}]

\* the query argument: undefined, {}, or two parameters
NoQuery == [some |-> FALSE, val |-> <<>>]
TwoParams == << <<"pretty", "true">>, <<"fieldManager", "kubernetesjs-cli">> >>
Queries == {NoQuery, Some(<<>>), Some(TwoParams)}
Endpoint == "/api/v1/namespaces/default/pods"

\* the wider arguments under which the construction of a request is checked
AnyOptsTimeouts == {NoNum, Some(0), Some(2000)}
AnyRequestOpts ==
    [headers : {NoHeaders, Some([k \in {"X"} |-> "b"]),
                Some([k \in {"Content-Type"} |-> "application/yaml"])},
     timeout : AnyOptsTimeouts, isFormData : BOOLEAN]
AnyTimeoutOptions == {NoNum, Some(0), Some(5000)}
AnyEndpoints == {DEFAULT_ENDPOINT, "/api/k8s", "/api/k8s/", "/api/k8s//", ""}
AnyPaths == {Endpoint, "api/v1/namespaces/default/pods"}
AnyClientOptions ==
    [restEndpoint : AnyEndpoints, token : {None, Some("tok")},
     headers : {NoHeaders}, timeout : AnyTimeoutOptions]

\* HTTP header names are case-insensitive: the lower-cased name
LowerName(k) ==
    CASE k = "Authorization" -> "authorization"
      [] k = "Content-Type" -> "content-type"
      [] k = "X" -> "x"
      [] k = "Y" -> "y"
      [] OTHER -> k

\* the RequestOptions each verb helper hands to request()
RequestOptions(path, method, headers, timeout, params, body) ==
    [path |-> path, method |-> method, headers |-> headers, timeout |-> timeout,
     params |-> params, body |-> body]

JsonContentType == [k \in {"Content-Type"} |-> "application/json"]
FormContentType == [k \in {"Content-Type"} |-> "application/x-www-form-urlencoded"]

\* URLSearchParams(record).toString(): key=value joined by & (the modelled
\* keys and values hold no character that is percent-encoded)
RECURSIVE FormEncode(_)
FormEncode(pairs) ==
    IF pairs = <<>> THEN ""
    ELSE Head(pairs)[1] \o "=" \o Head(pairs)[2]
         \o (IF Tail(pairs) = <<>> THEN "" ELSE "&" \o FormEncode(Tail(pairs)))

\* new URLSearchParams(body).toString() in patch(); the property of a
\* circular object that holds the object itself is turned into a string
URLSearchParamsOf(body) ==
    CASE body.kind = "object" -> FormEncode(body.fields)
      [] body.kind = "undefined" -> ""
      [] body.kind = "circular" -> "self=%5Bobject+Object%5D"
      [] body.kind = "string" -> body.text

\* get, post, patch, put, delete: the RequestOptions handed to request()
VerbHelper(c, verb, endpoint, query, body, opts) ==
    LET timeout == Some(OrNum(opts.timeout, c.defaultTimeout))
        given == IF opts.headers.some THEN opts.headers.val ELSE <<>>
    IN  CASE verb \in {"get", "delete"} ->
               RequestOptions(endpoint, MethodOf(verb), opts.headers, timeout,
                              query, BodyUndefined)
          [] verb = "post" ->
               RequestOptions(endpoint, "POST",
                              Some(ObjectAssign(JsonContentType, given)),
                              timeout, query, body)
          [] verb = "put" ->
               RequestOptions(endpoint, "PUT",
                              Some(ObjectAssign(JsonContentType, given)),
                              timeout, NoQuery, body)
          [] verb = "patch" ->
               RequestOptions(endpoint, "PATCH",
                              Some(ObjectAssign(IF opts.isFormData THEN FormContentType
                                                ELSE JsonContentType, given)),
                              timeout, NoQuery,
                              IF opts.isFormData THEN BodyString(URLSearchParamsOf(body))
                              ELSE body)

----------------------------------------------------------------------------
(* Transport client: buildFullPath()                                       *)

startsWith(str, prefix) ==
    Len(str) >= Len(prefix) /\ SubSeq(str, 1, Len(prefix)) = prefix

\* str.replace(/\/$/, '')
StripTrailingSlash(str) ==
    IF Len(str) > 0 /\ SubSeq(str, Len(str), Len(str)) = "/"
    THEN SubSeq(str, 1, Len(str) - 1) ELSE str

\* the first index at or after i where part occurs in str, 0 when none does
RECURSIVE IndexFrom(_, _, _)
IndexFrom(str, part, i) ==
    IF i + Len(part) - 1 > Len(str) THEN 0
    ELSE IF SubSeq(str, i, i + Len(part) - 1) = part THEN i
    ELSE IndexFrom(str, part, i + 1)

\* the last index of "/" in str, 0 when there is none
RECURSIVE LastSlash(_, _)
LastSlash(str, i) ==
    IF i = 0 THEN 0
    ELSE IF SubSeq(str, i, i) = "/" THEN i ELSE LastSlash(str, i - 1)

\* new URL(endpoint, base).toString() for a base scheme://authority[/path]
\* and an endpoint that is a path; throws when the base is not a URL
NewURL(endpoint, base) ==
    LET colon == IndexFrom(base, "://", 1)
        slash == IF colon = 0 THEN 0 ELSE IndexFrom(base, "/", colon + 3)
        origin == IF slash = 0 THEN base ELSE SubSeq(base, 1, slash - 1)
        pathname == IF slash = 0 THEN "/" ELSE SubSeq(base, slash, Len(base))
        directory == SubSeq(pathname, 1, LastSlash(pathname, Len(pathname)))
    IN  IF colon <= 1 THEN [threw |-> TRUE, url |-> ""]
        ELSE IF startsWith(endpoint, "/")
        THEN [threw |-> FALSE, url |-> origin \o endpoint]
        ELSE [threw |-> FALSE, url |-> origin \o directory \o endpoint]

WithQuery(url, query) ==
    IF query.some /\ query.val # <<>> THEN url \o "?" \o FormEncode(query.val) ELSE url

buildFullPath(c, endpoint, query) ==
    IF startsWith(c.baseUrl, "/")
    THEN [threw |-> FALSE,
          url |-> WithQuery(StripTrailingSlash(c.baseUrl) \o endpoint, query)]
    ELSE LET u == NewURL(endpoint, c.baseUrl)
         IN  IF u.threw THEN u ELSE [threw |-> FALSE, url |-> WithQuery(u.url, query)]

----------------------------------------------------------------------------
(* Transport client: request()                                             *)

\* the errors a call rejects with
NoError == [name |-> "", status |-> 0, body |-> ""]
SerializeError == [name |-> "TypeError: JSON.stringify", status |-> 0, body |-> ""]
AbortError == [name |-> "AbortError", status |-> 0, body |-> ""]
FetchFailed == [name |-> "TypeError: fetch failed", status |-> 0, body |-> ""]
BodyReadFailed == [name |-> "TypeError: terminated", status |-> 0, body |-> ""]
InvalidUrl == [name |-> "TypeError: Invalid URL", status |-> 0, body |-> ""]
JsonSyntaxError == [name |-> "SyntaxError", status |-> 0, body |-> ""]
\* new Error(`HTTP error! status: ${status}\nResponse body: ${errorBody}`)
HttpError_NoStatus(status, errorBody) ==
    [name |-> "HTTP error!", status |-> 0, body |-> errorBody]

HttpError(status, errorBody) ==
    [name |-> "HTTP error!", status |-> status, body |-> errorBody]

\* the class of the value a call rejects with: request() rethrows what
\* fetch, response.json() and JSON.stringify raise, and throws a plain Error
\* for a failure status
ErrorClass(e) ==
    CASE e.name = "AbortError" -> "DOMException"
      [] e.name = "HTTP error!" -> "Error"
      [] e.name = "SyntaxError" -> "SyntaxError"
      [] OTHER -> "TypeError"

Pending == [kind |-> "pending", error |-> NoError, value |-> ""]
Rejected(e) == [kind |-> "error", error |-> e, value |-> ""]
Resolved(v) == [kind |-> "value", error |-> NoError, value |-> v]

NoResponse == [some |-> FALSE, status |-> 0, body |-> ""]
Response(status, body) == [some |-> TRUE, status |-> status, body |-> body]

NoTimer == [state |-> "none", delay |-> 0]
NoFetch == [called |-> FALSE, url |-> "", method |-> "", headers |-> <<>>,
            body |-> None]
NoArgs == [verb |-> "", endpoint |-> "", query |-> NoQuery, body |-> BodyUndefined,
           opts |-> [headers |-> NoHeaders, timeout |-> NoNum, isFormData |-> FALSE]]

IdleCall ==
    [pc |-> "idle",
     args |-> NoArgs,              \* what the caller passed to the verb helper
     options |-> RequestOptions("", "", NoHeaders, NoNum, NoQuery, BodyUndefined),
     timer |-> NoTimer,            \* the timer of setTimeout
     aborted |-> FALSE,            \* controller.signal.aborted
     lateAbort |-> FALSE,          \* the timer fired after the call had ended
     fetch |-> NoFetch,            \* url and fetchOptions given to fetch()
     response |-> NoResponse,      \* what fetch() resolved with
     jsonCalled |-> FALSE,         \* response.json() was invoked
     result |-> Pending]           \* how the promise of request() settled

mergedHeaders_DefaultsLast(c, headers) ==
    LET perCall == IF headers.some THEN headers.val ELSE <<>>
        withToken ==
            IF Truthy(c.defaultToken)
            THEN ObjectAssign(perCall,
                    [k \in {"Authorization"} |-> "Bearer " \o c.defaultToken.val])
            ELSE perCall
    IN  ObjectAssign(withToken, c.defaultHeaders)

mergedHeaders(c, headers) ==
    LET defaults == c.defaultHeaders
        withToken ==
            IF Truthy(c.defaultToken)
            THEN ObjectAssign(defaults,
                    [k \in {"Authorization"} |-> "Bearer " \o c.defaultToken.val])
            ELSE defaults
    IN  IF headers.some THEN ObjectAssign(withToken, headers.val) ELSE withToken

\* JSON.stringify(body): a string, undefined, or a throw
RECURSIVE JsonMembers(_)
JsonMembers(pairs) ==
    IF pairs = <<>> THEN ""
    ELSE "\"" \o Head(pairs)[1] \o "\":\"" \o Head(pairs)[2] \o "\""
         \o (IF Tail(pairs) = <<>> THEN "" ELSE "," \o JsonMembers(Tail(pairs)))

JSONstringify(body) ==
    CASE body.kind = "object" ->
            [threw |-> FALSE, text |-> Some("{" \o JsonMembers(body.fields) \o "}")]
      [] body.kind = "string" ->
            [threw |-> FALSE, text |-> Some("\"" \o body.text \o "\"")]
      [] body.kind = "undefined" -> [threw |-> FALSE, text |-> None]
      [] body.kind = "circular" -> [threw |-> TRUE, text |-> None]

\* request() from its first statement to `await fetch(url, fetchOptions)`
request(c, options) ==
    LET built == buildFullPath(c, options.path,
                     IF options.method = "GET" \/ options.method = "DELETE"
                     THEN options.params ELSE NoQuery)
        timer == [state |-> "pending",
                  delay |-> OrNum(options.timeout, c.defaultTimeout)]
        headers == mergedHeaders(c, options.headers)
        hasBody == options.method # "GET" /\ options.method # "DELETE"
        text == IF hasBody THEN JSONstringify(options.body)
                ELSE [threw |-> FALSE, text |-> None]
        started == [IdleCall EXCEPT !.options = options, !.timer = timer]
    IN  IF built.threw
        THEN [IdleCall EXCEPT !.options = options, !.pc = "done",
                              !.result = Rejected(InvalidUrl)]
        ELSE IF text.threw
        THEN [started EXCEPT !.pc = "done", !.result = Rejected(SerializeError)]
        ELSE [started EXCEPT
                !.pc = "fetch",
                !.fetch = [called |-> TRUE, url |-> built.url,
                           method |-> options.method,
                           headers |-> headers, body |-> text.text]]

\* clearTimeout(id): no effect on a timer that has fired
clearTimeout(t) == IF t.state = "pending" THEN [t EXCEPT !.state = "cleared"] ELSE t

IsOk(status) == status >= 200 /\ status <= 299

\* the continuation of `await fetch` when fetch resolves
onResponse_SkipOkCheck(cl, resp) ==
    [cl EXCEPT !.timer = clearTimeout(cl.timer), !.response = resp,
               !.pc = "json", !.jsonCalled = TRUE]

onResponse(cl, resp) ==
    IF IsOk(resp.status)
    THEN [cl EXCEPT !.timer = clearTimeout(cl.timer), !.response = resp,
                    !.pc = "json", !.jsonCalled = TRUE]
    ELSE [cl EXCEPT !.timer = clearTimeout(cl.timer), !.response = resp,
                    !.pc = "text"]

\* the catch block: clearTimeout(id); throw error
onCatch(cl, e) ==
    [cl EXCEPT !.timer = clearTimeout(cl.timer), !.pc = "done",
               !.result = Rejected(e)]

\* the timer callback: controller.abort()
onTimeout_NoReject(cl) ==
    [cl EXCEPT !.timer.state = "fired", !.aborted = TRUE,
               !.lateAbort = (cl.pc = "done")]

onTimeout(cl) ==
    LET fired == [cl EXCEPT !.timer.state = "fired", !.aborted = TRUE]
    IN  IF cl.pc = "fetch" THEN onCatch(fired, AbortError)
        ELSE [fired EXCEPT !.lateAbort = (cl.pc = "done")]

\* JSON.parse on the bodies the modelled server sends
Statuses == {200, 404, 500}
ResponseBodies == {"", "{\"kind\":\"Status\"}", "<html>"}
JSONparse(text) ==
    IF text = "{\"kind\":\"Status\"}"
    THEN [threw |-> FALSE, value |-> "Status"]
    ELSE [threw |-> TRUE, value |-> ""]

----------------------------------------------------------------------------
(* The client as a state machine.  A call is started by a verb helper and  *)
(* then advanced by the server, the network and the timer.                 *)

Init ==
    /\ hasProcess = FALSE
    /\ env = NoEnv
    /\ hasFs = FALSE
    /\ files = [p \in Paths |-> Missing]
    /\ call = NoCall
    /\ ret = NoRet
    /\ config \in ClientOptions
    /\ client = APIClient(config)
    /\ calls = [id \in {"c1"} |-> IdleCall]
    /\ argv = IdleArgv
    /\ manifest = IdleManifest
    /\ run = IdleRun

\* a call of a verb helper: the call record when request() first awaits
Invoke(c, verb, endpoint, query, body, opts) ==
    [request(c, VerbHelper(c, verb, endpoint, query, body, opts)) EXCEPT
        !.args = [verb |-> verb, endpoint |-> endpoint, query |-> query,
                  body |-> body, opts |-> opts]]

\* get / post / put / patch / delete up to the await of fetch
Request(id) ==
    /\ calls[id].pc = "idle"
    /\ \E verb \in Verbs, opts \in RequestOpts :
         \E body \in BodiesOf(verb) :
            calls' = [calls EXCEPT
                        ![id] = Invoke(client, verb, Endpoint, NoQuery, body, opts)]
    /\ UNCHANGED <<config, client, resolverVars, applyVars>>

\* the server answers with a status line and headers: fetch resolves
FetchResolves(id) ==
    /\ calls[id].pc = "fetch"
    /\ \E status \in Statuses, body \in ResponseBodies :
         calls' = [calls EXCEPT ![id] = onResponse(@, Response(status, body))]
    /\ UNCHANGED <<config, client, resolverVars, applyVars>>

\* DNS or connection failure: fetch rejects
FetchRejects(id) ==
    /\ calls[id].pc = "fetch"
    /\ calls' = [calls EXCEPT ![id] = onCatch(@, FetchFailed)]
    /\ UNCHANGED <<config, client, resolverVars, applyVars>>

\* the delay of the timer elapses
TimerFires_SharedController(id) ==
    /\ calls[id].timer.state = "pending"
    /\ calls' = [o \in DOMAIN calls |->
                    IF calls[o].timer.state = "pending" THEN onTimeout(calls[o])
                    ELSE calls[o]]
    /\ UNCHANGED <<config, client, resolverVars, applyVars>>

TimerFires(id) ==
    /\ calls[id].timer.state = "pending"
    /\ calls' = [calls EXCEPT ![id] = onTimeout(@)]
    /\ UNCHANGED <<config, client, resolverVars, applyVars>>

\* response.text() resolves: the HTTP error is thrown and caught
TextResolves(id) ==
    /\ calls[id].pc = "text"
    /\ calls' = [calls EXCEPT
                    ![id] = onCatch(@, HttpError(@.response.status, @.response.body))]
    /\ UNCHANGED <<config, client, resolverVars, applyVars>>

\* the body stream breaks while response.text() reads it
TextRejects(id) ==
    /\ calls[id].pc = "text"
    /\ calls' = [calls EXCEPT ![id] = onCatch(@, BodyReadFailed)]
    /\ UNCHANGED <<config, client, resolverVars, applyVars>>

\* the promise of response.json(), returned without await, settles
JsonSettles(id) ==
    /\ calls[id].pc = "json"
    /\ LET parsed == JSONparse(calls[id].response.body)
       IN  calls' = [calls EXCEPT
                        ![id].pc = "done",
                        ![id].result = IF parsed.threw THEN Rejected(JsonSyntaxError)
                                       ELSE Resolved(parsed.value)]
    /\ UNCHANGED <<config, client, resolverVars, applyVars>>

JsonRejects(id) ==
    /\ calls[id].pc = "json"
    /\ calls' = [calls EXCEPT ![id].pc = "done",
                              ![id].result = Rejected(BodyReadFailed)]
    /\ UNCHANGED <<config, client, resolverVars, applyVars>>

Next ==
    \/ \E id \in DOMAIN calls : Request(id)
    \/ \E id \in DOMAIN calls : FetchResolves(id)
    \/ \E id \in DOMAIN calls : FetchRejects(id)
    \/ \E id \in DOMAIN calls : TimerFires(id)
    \/ \E id \in DOMAIN calls : TextResolves(id)
    \/ \E id \in DOMAIN calls : TextRejects(id)
    \/ \E id \in DOMAIN calls : JsonSettles(id)
    \/ \E id \in DOMAIN calls : JsonRejects(id)

Spec == Init /\ [][Next]_vars

\* The event loop runs the callback of a timer that stays pending; nothing
\* obliges the server or the network to answer or to finish a body.
SpecLive == Spec /\ WF_vars(TimerFires("c1"))

----------------------------------------------------------------------------
(* The construction of a request, over the wider arguments: every verb,    *)
(* query, body, form flag and timeout, on absolute and relative endpoints. *)

InitRequest ==
    /\ hasProcess = FALSE
    /\ env = NoEnv
    /\ hasFs = FALSE
    /\ files = [p \in Paths |-> Missing]
    /\ call = NoCall
    /\ ret = NoRet
    /\ config \in AnyClientOptions
    /\ client = APIClient(config)
    /\ calls = [id \in {"c1"} |-> IdleCall]
    /\ argv = IdleArgv
    /\ manifest = IdleManifest
    /\ run = IdleRun

RequestAny(id) ==
    /\ calls[id].pc = "idle"
    /\ \E verb \in Verbs, opts \in AnyRequestOpts, query \in Queries :
         \E body \in BodiesOf(verb), path \in AnyPaths :
            calls' = [calls EXCEPT
                        ![id] = Invoke(client, verb, path, query, body, opts)]
    /\ UNCHANGED <<config, client, resolverVars, applyVars>>

NextRequest == \E id \in DOMAIN calls : RequestAny(id)

SpecRequest == InitRequest /\ [][NextRequest]_vars

----------------------------------------------------------------------------
(* Two calls of one client in flight at once, in every interleaving.       *)

CallIds == {"c1", "c2"}
ConcurrentOptions ==
    [restEndpoint |-> DEFAULT_ENDPOINT, token |-> Some("tok"),
     headers |-> Some([k \in {"X", "Y"} |-> IF k = "X" THEN "a" ELSE "c"]),
     timeout |-> Some(5000)]
ConcurrentOpts ==
    [headers : {NoHeaders, Some([k \in {"X"} |-> "b"])},
     timeout : OptsTimeouts, isFormData : {FALSE}]

InitConcurrent ==
    /\ hasProcess = FALSE
    /\ env = NoEnv
    /\ hasFs = FALSE
    /\ files = [p \in Paths |-> Missing]
    /\ call = NoCall
    /\ ret = NoRet
    /\ config = ConcurrentOptions
    /\ client = APIClient(config)
    /\ calls = [id \in CallIds |-> IdleCall]
    /\ argv = IdleArgv
    /\ manifest = IdleManifest
    /\ run = IdleRun

\* a second call may be started while the first is awaited
RequestConcurrent_AssignsDefaults(id) ==
    /\ calls[id].pc = "idle"
    /\ \E verb \in Verbs, opts \in ConcurrentOpts :
         /\ calls' = [calls EXCEPT
                        ![id] = Invoke(client, verb, Endpoint, NoQuery,
                                       IF verb \in {"get", "delete"} THEN BodyUndefined ELSE BodyObject,
                                       opts)]
         /\ client' = [client EXCEPT
                         !.defaultHeaders =
                            ObjectAssign(@, IF opts.headers.some THEN opts.headers.val
                                            ELSE <<>>)]
    /\ UNCHANGED <<config, resolverVars, applyVars>>

RequestConcurrent(id) ==
    /\ calls[id].pc = "idle"
    /\ \E verb \in Verbs, opts \in ConcurrentOpts :
         calls' = [calls EXCEPT
                     ![id] = Invoke(client, verb, Endpoint, NoQuery,
                                    IF verb \in {"get", "delete"} THEN BodyUndefined ELSE BodyObject,
                                    opts)]
    /\ UNCHANGED <<config, client, resolverVars, applyVars>>

NextConcurrent ==
    \/ \E id \in DOMAIN calls : RequestConcurrent(id)
    \/ \E id \in DOMAIN calls : FetchResolves(id)
    \/ \E id \in DOMAIN calls : FetchRejects(id)
    \/ \E id \in DOMAIN calls : TimerFires(id)
    \/ \E id \in DOMAIN calls : TextResolves(id)
    \/ \E id \in DOMAIN calls : TextRejects(id)
    \/ \E id \in DOMAIN calls : JsonSettles(id)
    \/ \E id \in DOMAIN calls : JsonRejects(id)

SpecConcurrent == InitConcurrent /\ [][NextConcurrent]_vars

----------------------------------------------------------------------------
(* The apply command: documents, manifests and command lines               *)

\* most documents of a manifest given as a top-level sequence
MaxDocs == 3

NoItems == [some |-> FALSE, isArray |-> FALSE, val |-> <<>>]
ItemsArray(docs) == [some |-> TRUE, isArray |-> TRUE, val |-> docs]
ItemsMapping == [some |-> TRUE, isArray |-> FALSE, val |-> <<>>]

NoMetadata == [some |-> FALSE, name |-> None, namespace |-> None]
Metadata(name, namespace) == [some |-> TRUE, name |-> name, namespace |-> namespace]
Document(kind, metadata) == [kind |-> kind, metadata |-> metadata, items |-> NoItems]

Documents ==
    {Document(Some("Deployment"), Metadata(Some("web"), None)),
     Document(Some("Service"), Metadata(Some("web"), Some("prod"))),
     Document(Some("Pod"), Metadata(Some("web"), Some(""))),
     Document(Some("SECRET"), Metadata(Some("web"), None)),
     Document(Some("Ingress"), Metadata(Some("web"), None)),
     Document(Some("ConfigMap"), NoMetadata),
     Document(None, NoMetadata)}

RECURSIVE DocSeqsUpTo(_)
DocSeqsUpTo(n) ==
    IF n = 0 THEN {<<>>}
    ELSE LET shorter == DocSeqsUpTo(n - 1)
         IN  shorter \cup {Append(q, doc) : q \in shorter, doc \in Documents}

\* kind: List documents
ThreeItems ==
    <<Document(Some("Deployment"), Metadata(Some("web"), None)),
      Document(Some("ConfigMap"), NoMetadata),
      Document(Some("Service"), Metadata(Some("web"), Some("prod")))>>
ListDocument(kind, items) == [kind |-> kind, metadata |-> NoMetadata, items |-> items]
ListDocuments ==
    {ListDocument(Some("List"), ItemsArray(ThreeItems)),
     ListDocument(Some("List"), ItemsArray(<<>>)),
     ListDocument(Some("List"), NoItems),
     ListDocument(Some("List"), ItemsMapping),
     ListDocument(Some("list"), ItemsArray(ThreeItems))}

\* what readYamlFile returns: a sequence of documents or one document
ArrayContent(docs) == [isArray |-> TRUE, array |-> docs, doc |-> Document(None, NoMetadata)]
SingleContent(doc) == [isArray |-> FALSE, array |-> <<>>, doc |-> doc]
Contents ==
    {ArrayContent(docs) : docs \in DocSeqsUpTo(MaxDocs)}
    \cup {SingleContent(doc) : doc \in Documents \cup ListDocuments}

\* the manifest file: missing, not parsable as YAML, or parsed
Manifests ==
    {[file |-> "missing", content |-> ArrayContent(<<>>)],
     [file |-> "unparsable", content |-> ArrayContent(<<>>)]}
    \cup {[file |-> "ok", content |-> c] : c \in Contents}

\* argv of the apply command: the file path (from -f, the first argument or
\* the prompt), the two namespace flags and the endpoint, which may be missing
ApplyLines ==
    [command : {"apply"}, f : {None, Some("manifest.yaml")},
     n : {None, Some("team")}, namespace : {None, Some("ops")},
     clientUrl : {Some(DEFAULT_ENDPOINT), None}, type : {None}, name : {None}]

\* argv of the describe command: the resource type and name (argv._[0] and
\* argv._[1]) and the namespace flag
DescribeLines ==
    [command : {"describe"}, f : {None}, n : {None, Some("team")},
     namespace : {None}, clientUrl : {None},
     type : {None, Some("pod"), Some("deployment"), Some("namespace")},
     name : {None, Some("web")}]

CommandLines == ApplyLines \cup DescribeLines

----------------------------------------------------------------------------
(* The apply command: applyResource and the handler                        *)

UpperCase == "ABCDEFGHIJKLMNOPQRSTUVWXYZ"
LowerCase == "abcdefghijklmnopqrstuvwxyz"

\* String.prototype.toLowerCase
RECURSIVE toLowerCase(_)
toLowerCase_AsIs(str) == str

toLowerCase(str) ==
    IF Len(str) = 0 THEN ""
    ELSE LET c == SubSeq(str, 1, 1)
             at == IndexFrom(UpperCase, c, 1)
         IN  (IF at = 0 THEN c ELSE SubSeq(LowerCase, at, at))
             \o toLowerCase(Tail(str))

\* the switch of applyResource: the operation of a lower-cased kind
OperationFor_DefaultPod(kind) ==
    CASE kind = "deployment" -> Some("createAppsV1NamespacedDeployment")
      [] kind = "service" -> Some("createCoreV1NamespacedService")
      [] kind = "configmap" -> Some("createCoreV1NamespacedConfigMap")
      [] kind = "secret" -> Some("createCoreV1NamespacedSecret")
      [] OTHER -> Some("createCoreV1NamespacedPod")

OperationFor(kind) ==
    CASE kind = "deployment" -> Some("createAppsV1NamespacedDeployment")
      [] kind = "service" -> Some("createCoreV1NamespacedService")
      [] kind = "pod" -> Some("createCoreV1NamespacedPod")
      [] kind = "configmap" -> Some("createCoreV1NamespacedConfigMap")
      [] kind = "secret" -> Some("createCoreV1NamespacedSecret")
      [] OTHER -> None

\* a line written with console.log or console.error for document doc
\* (0: for the whole command)
Line(stream, colour, line, doc, text) ==
    [stream |-> stream, colour |-> colour, line |-> line, doc |-> doc, text |-> text]

\* resource.metadata?.name, resource.metadata?.namespace
NameOf(resource) == IF resource.metadata.some THEN resource.metadata.name ELSE None
NamespaceOf(resource) ==
    IF resource.metadata.some THEN resource.metadata.namespace ELSE None

\* !name
LacksName_Never(resource) == FALSE

LacksName(resource) == ~Truthy(NameOf(resource))

\* resource.metadata?.namespace || argv.n || argv.namespace || 'default'
resolveNamespace_FlagFirst(resource, a) ==
    IF Truthy(a.n) THEN a.n.val
    ELSE IF Truthy(a.namespace) THEN a.namespace.val
    ELSE IF Truthy(NamespaceOf(resource)) THEN NamespaceOf(resource).val
    ELSE "default"

resolveNamespace(resource, a) ==
    IF Truthy(NamespaceOf(resource)) THEN NamespaceOf(resource).val
    ELSE IF Truthy(a.n) THEN a.n.val
    ELSE IF Truthy(a.namespace) THEN a.namespace.val
    ELSE "default"

\* the normalisation of the parsed manifest into resources
normalize_AnyCase(content) ==
    IF content.isArray THEN content.array
    ELSE IF /\ content.doc.kind.some
            /\ toLowerCase(content.doc.kind.val) = "list"
            /\ content.doc.items.isArray
         THEN content.doc.items.val
    ELSE <<content.doc>>

normalize(content) ==
    IF content.isArray THEN content.array
    ELSE IF content.doc.kind = Some("List") /\ content.doc.items.isArray
         THEN content.doc.items.val
    ELSE <<content.doc>>

\* the catch of the for loop: one error line, then the next resource
loopCatch_Abort(r, text) ==
    [r EXCEPT !.log = Append(@, Line("error", "red", "failedToApply", r.i, text)),
              !.pc = "done"]

loopCatch(r, text) ==
    [r EXCEPT !.log = Append(@, Line("error", "red", "failedToApply", r.i, text)),
              !.i = r.i + 1, !.pc = "loop"]

\* one iteration of the for loop up to the await of the create operation,
\* or to its end when nothing is awaited
dispatch_NoAwait(r, a) ==
    LET resource == r.resources[r.i]
        namespace == resolveNamespace(resource, a)
    IN  IF ~resource.kind.some
        THEN loopCatch(r, "TypeError")
        ELSE IF LacksName(resource)
        THEN loopCatch(r, "Resource must have a name")
        ELSE LET kind == toLowerCase(resource.kind.val)
                 op == OperationFor(kind)
                 applying == Line("log", "blue", "applying", r.i, namespace)
             IN  IF op.some
                 THEN [r EXCEPT
                         !.log = @ \o <<applying,
                                        Line("log", "green", "created", r.i, "")>>,
                         !.ops = Append(@, [op |-> op.val, namespace |-> namespace,
                                            pretty |-> "true",
                                            fieldManager |-> "kubernetesjs-cli",
                                            body |-> resource, doc |-> r.i,
                                            state |-> "pending"]),
                         !.i = r.i + 1]
                 ELSE [r EXCEPT
                         !.log = @ \o <<applying,
                                        Line("log", "yellow", "notImplemented", r.i, kind)>>,
                         !.i = r.i + 1]

dispatch(r, a) ==
    LET resource == r.resources[r.i]
        namespace == resolveNamespace(resource, a)
    IN  IF ~resource.kind.some
        THEN loopCatch(r, "TypeError")
        ELSE IF LacksName(resource)
        THEN loopCatch(r, "Resource must have a name")
        ELSE LET kind == toLowerCase(resource.kind.val)
                 op == OperationFor(kind)
                 applying == Line("log", "blue", "applying", r.i, namespace)
             IN  IF op.some
                 THEN [r EXCEPT
                         !.log = Append(@, applying),
                         !.ops = Append(@, [op |-> op.val, namespace |-> namespace,
                                            pretty |-> "true",
                                            fieldManager |-> "kubernetesjs-cli",
                                            body |-> resource, doc |-> r.i,
                                            state |-> "pending"]),
                         !.pc = "await"]
                 ELSE [r EXCEPT
                         !.log = @ \o <<applying,
                                        Line("log", "yellow", "notImplemented", r.i, kind)>>,
                         !.i = r.i + 1]

\* the create operation resolves: the success line
onCreated_NoLine(r) ==
    [r EXCEPT !.ops[Len(r.ops)].state = "resolved", !.i = r.i + 1, !.pc = "loop"]

onCreated(r) ==
    [r EXCEPT !.ops[Len(r.ops)].state = "resolved",
              !.log = Append(@, Line("log", "green", "created", r.i, "")),
              !.i = r.i + 1, !.pc = "loop"]

\* the create operation rejects: the catch of applyResource logs and
\* rethrows, the catch of the loop logs again
onCreateFailed_Silent(r) ==
    [r EXCEPT !.ops[Len(r.ops)].state = "rejected", !.i = r.i + 1, !.pc = "loop"]

onCreateFailed(r) ==
    loopCatch([r EXCEPT !.ops[Len(r.ops)].state = "rejected",
                        !.log = Append(@, Line("error", "red", "errorApplying",
                                               r.i, "transport"))],
              "transport")

\* the catch around the whole handler: one error line, then a normal return
handlerCatch_Rethrow(r, text) == [r EXCEPT !.pc = "done", !.threw = TRUE]

handlerCatch(r, text) ==
    [r EXCEPT !.log = Append(@, Line("error", "red", "error", 0, text)),
              !.pc = "done"]

\* the describe command: the operations of the three resource types
DescribedTypes == {"pod", "service", "deployment"}
PromptedTypes == {"service", "statefulset"}
ListFor(type) ==
    CASE type = "pod" -> "listCoreV1NamespacedPod"
      [] type = "service" -> "listCoreV1NamespacedService"
      [] type = "deployment" -> "listAppsV1NamespacedDeployment"
ReadFor(type) ==
    CASE type = "pod" -> "readCoreV1NamespacedPod"
      [] type = "service" -> "readCoreV1NamespacedService"
      [] type = "deployment" -> "readAppsV1NamespacedDeployment"

Operation(op, type, namespace, name) ==
    [op |-> op, type |-> type, namespace |-> namespace, name |-> name,
     state |-> "pending", readable |-> TRUE]

\* argv.n || argv.namespace || getCurrentNamespace()
describeNamespace(a) ==
    IF Truthy(a.n) THEN a.n.val
    ELSE IF Truthy(a.namespace) THEN a.namespace.val
    ELSE "default"

\* the handler from the progress line to the await of the read operation
describing(r, type, namespace, name) ==
    LET line == Line("log", "blue", "describing", 0, namespace)
    IN  IF type \in DescribedTypes
        THEN [r EXCEPT !.log = Append(@, line),
                       !.ops = Append(@, Operation(ReadFor(type), type, namespace, name)),
                       !.pc = "read"]
        ELSE [r EXCEPT !.log = @ \o <<line, Line("log", "yellow", "notImplemented", 0, type)>>,
                       !.pc = "done"]

\* the handler up to its first awaited operation; type is argv._[0] or the
\* answer of the prompt
describe(r, a, type) ==
    LET namespace == describeNamespace(a)
    IN  IF Truthy(a.name) THEN describing(r, type, namespace, a.name.val)
        ELSE IF type \in DescribedTypes
        THEN [r EXCEPT !.ops = Append(@, Operation(ListFor(type), type, namespace, "")),
                       !.pc = "list"]
        ELSE [r EXCEPT !.log = Append(@, Line("log", "yellow", "notImplemented", 0, type)),
                       !.pc = "done"]

\* what a list operation resolves with: no items member, no item, one named
\* item, one item without metadata
ListResults ==
    {NoItems, ItemsArray(<<>>),
     ItemsArray(<<Document(Some("Pod"), Metadata(Some("web"), Some("default")))>>),
     ItemsArray(<<Document(Some("Pod"), NoMetadata)>>)}

\* promptResourceName after its list operation has resolved, and the rest
\* of the handler up to the read operation
onListed(r, items) ==
    LET op == r.ops[Len(r.ops)]
        listed == [r EXCEPT !.ops[Len(r.ops)].state = "resolved"]
        resources == IF items.some THEN items.val ELSE <<>>
    IN  IF resources = <<>>
        THEN [listed EXCEPT !.log = Append(@, Line("log", "yellow", "noneFound", 0, op.type)),
                            !.pc = "done"]
        ELSE IF \E k \in 1..Len(resources) : ~resources[k].metadata.some
        THEN handlerCatch([listed EXCEPT !.ops[Len(r.ops)].readable = FALSE], "TypeError")
        ELSE IF ~Truthy(resources[1].metadata.name)
        THEN [listed EXCEPT !.pc = "done"]
        ELSE describing(listed, op.type, op.namespace, resources[1].metadata.name.val)

\* what a read operation resolves with: an object with the members the
\* printers read, or one without them
ReadResults ==
    {Document(Some("Pod"), Metadata(Some("web"), Some("default"))),
     Document(Some("Pod"), NoMetadata)}

\* describePod, describeService, describeDeployment on the object read
onRead(r, object) ==
    LET read == [r EXCEPT !.ops[Len(r.ops)].state = "resolved"]
    IN  IF ~object.metadata.some
        THEN handlerCatch([read EXCEPT !.ops[Len(r.ops)].readable = FALSE], "TypeError")
        ELSE [read EXCEPT !.log = Append(@, Line("log", "bold", "described", 0,
                                                 object.metadata.name.val)),
                          !.pc = "done"]

\* a list or read operation rejects
onOperationFailed(r) ==
    handlerCatch([r EXCEPT !.ops[Len(r.ops)].state = "rejected"], "transport")

StartRun ==
    [pc |-> "start", resources |-> <<>>, i |-> 1, log |-> <<>>, ops |-> <<>>,
     threw |-> FALSE]

InitApply ==
    /\ hasProcess = FALSE
    /\ env = NoEnv
    /\ hasFs = FALSE
    /\ files = [p \in Paths |-> Missing]
    /\ call = NoCall
    /\ ret = NoRet
    /\ config = IdleConfig
    /\ client = IdleClient
    /\ calls = <<>>
    /\ argv \in CommandLines
    /\ manifest \in Manifests
    /\ argv.f = None => manifest.file = "missing"
    /\ run = StartRun

\* the handler up to the for loop: the client, the file path, the file,
\* the parse and the normalisation
\* (a missing argv.clientUrl leaves the client without a base URL, held here
\* as the empty text: building a request URL fails on either)
ApplyStart ==
    /\ run.pc = "start"
    /\ argv.command = "apply"
    /\ config' = [restEndpoint |-> argv.clientUrl.val, token |-> None,
                  headers |-> NoHeaders, timeout |-> NoNum]
    /\ client' = APIClient(config')
    /\ run' = IF ~Truthy(argv.f)
              THEN [run EXCEPT !.pc = "done",
                      !.log = Append(@, Line("error", "red", "noFilePath", 0, ""))]
              ELSE IF manifest.file = "missing"
              THEN [run EXCEPT !.pc = "done",
                      !.log = Append(@, Line("error", "red", "fileNotFound", 0, ""))]
              ELSE IF manifest.file = "unparsable"
              THEN [run EXCEPT !.pc = "done",
                      !.log = Append(@, Line("error", "red", "parseError", 0, ""))]
              ELSE [run EXCEPT !.pc = "loop",
                      !.resources = normalize(manifest.content)]
    /\ UNCHANGED <<resolverVars, calls, argv, manifest>>

Dispatch ==
    /\ run.pc = "loop"
    /\ run.i <= Len(run.resources)
    /\ run' = dispatch(run, argv)
    /\ UNCHANGED <<resolverVars, clientVars, argv, manifest>>

\* the awaited operation resolves; it cannot without a URL to send to
OpResolves ==
    /\ run.pc = "await"
    /\ ~buildFullPath(client, Endpoint, NoQuery).threw
    /\ run' = onCreated(run)
    /\ UNCHANGED <<resolverVars, clientVars, argv, manifest>>

\* the awaited operation rejects with a timeout, network, HTTP or decode error
OpRejects ==
    /\ run.pc = "await"
    /\ run' = onCreateFailed(run)
    /\ UNCHANGED <<resolverVars, clientVars, argv, manifest>>

\* after the last resource: the summary line
ApplyCompletes ==
    /\ run.pc = "loop"
    /\ run.i > Len(run.resources)
    /\ run' = [run EXCEPT !.pc = "done",
                 !.log = Append(@, Line("log", "green", "completed", 0, ""))]
    /\ UNCHANGED <<resolverVars, clientVars, argv, manifest>>

\* the describe handler up to its first await or its end
DescribeStart ==
    /\ run.pc = "start"
    /\ argv.command = "describe"
    /\ config' = [restEndpoint |-> "http://localhost:8001", token |-> None,
                  headers |-> NoHeaders, timeout |-> NoNum]
    /\ client' = APIClient(config')
    /\ \E type \in (IF Truthy(argv.type) THEN {argv.type.val} ELSE PromptedTypes) :
          run' = describe(run, argv, type)
    /\ UNCHANGED <<resolverVars, calls, argv, manifest>>

ListResolves ==
    /\ run.pc = "list"
    /\ \E items \in ListResults : run' = onListed(run, items)
    /\ UNCHANGED <<resolverVars, clientVars, argv, manifest>>

ReadResolves ==
    /\ run.pc = "read"
    /\ \E object \in ReadResults : run' = onRead(run, object)
    /\ UNCHANGED <<resolverVars, clientVars, argv, manifest>>

\* the awaited list or read operation rejects
DescribeRejects ==
    /\ run.pc \in {"list", "read"}
    /\ run' = onOperationFailed(run)
    /\ UNCHANGED <<resolverVars, clientVars, argv, manifest>>

NextApply ==
    \/ ApplyStart
    \/ Dispatch
    \/ OpResolves
    \/ OpRejects
    \/ ApplyCompletes
    \/ DescribeStart
    \/ ListResolves
    \/ ReadResolves
    \/ DescribeRejects

SpecApply == InitApply /\ [][NextApply]_vars

----------------------------------------------------------------------------
(* Claims about the config resolver, checked under SpecResolver            *)

ApiUrl == env.KUBERNETES_API_URL
Host == env.KUBERNETES_SERVICE_HOST
Port == env.KUBERNETES_SERVICE_PORT
GivenFallback == IF call.fallback.some THEN call.fallback.val ELSE DEFAULT_ENDPOINT
GivenPath == IF call.path.some THEN call.path.val ELSE SA_TOKEN_PATH
AssembledUrl == "https://" \o Host.val \o ":" \o (IF Port.some THEN Port.val ELSE "443")

\* the endpoint the priority list yields when a variable counts only if it
\* holds a non-empty string
PriorityEndpoint(fallback) ==
    IF ApiUrl.some /\ ApiUrl.val # "" THEN ApiUrl.val
    ELSE IF Host.some /\ Host.val # "" THEN AssembledUrl
    ELSE fallback

\* C1 as stated: detectEndpoint returns KUBERNETES_API_URL whenever it is
\* set, otherwise https://host:port whenever KUBERNETES_SERVICE_HOST is set
\* (port 443 when the port is unset), otherwise the fallback.
C1_AsStated ==
    call.op = "detectEndpoint" =>
        ret.str.val = (IF ApiUrl.some THEN ApiUrl.val
                       ELSE IF Host.some THEN AssembledUrl
                       ELSE GivenFallback)

\* C1 amended: detectEndpoint returns KUBERNETES_API_URL whenever it is set
\* to a non-empty string, otherwise https://host:port whenever
\* KUBERNETES_SERVICE_HOST is set to a non-empty string (port 443 when the
\* port is unset), otherwise the fallback unchanged.
C1_DetectEndpointPriority ==
    call.op = "detectEndpoint" =>
        /\ ~ret.threw
        /\ ret.str = Some(PriorityEndpoint(GivenFallback))

\* an empty override is skipped and the service host is used with port 443
C1_Witness ==
    /\ call.op = "detectEndpoint"
    /\ ApiUrl = Some("")
    /\ Host = Some("10.96.0.1")
    /\ ~Port.some
    /\ ret.str = Some("https://10.96.0.1:443")

\* C2: getInClusterConfig fails whenever KUBERNETES_SERVICE_HOST is not set,
\* whatever the token file and the other variables hold.
C2_FailsWithoutServiceHost ==
    (call.op = "getInClusterConfig" /\ ~Host.some) => ret.threw

TokenFile == files[SA_TOKEN_PATH]
AllWhitespace(s) == \A i \in 1..Len(s) : IsWhitespace(s[i])
TokenAvailable ==
    hasFs /\ TokenFile.kind = "readable" /\ ~AllWhitespace(TokenFile.content)

\* C3: getInClusterConfig fails whenever no service account token is
\* available (file missing, unreadable or empty after trimming); whenever it
\* returns, the configuration carries a non-empty token and the endpoint of
\* detectEndpoint, which is never http://127.0.0.1:8001.
C3_InClusterNeedsTokenAndEndpoint ==
    call.op = "getInClusterConfig" =>
        /\ ~TokenAvailable => ret.threw
        /\ ~ret.threw =>
            /\ ret.token.some /\ ret.token.val # ""
            /\ ret.restEndpoint = PriorityEndpoint(DEFAULT_ENDPOINT)
            /\ ret.restEndpoint # "http://127.0.0.1:8001"

C3_Witness ==
    /\ call.op = "getInClusterConfig"
    /\ ~ret.threw
    /\ ret.token = Some("t")
    /\ TokenFile.content = <<"t", "\n">>
    /\ ret.restEndpoint = "https://10.96.0.1:6443"

\* C4: getDefaultConfig never fails; when getInClusterConfig fails it returns
\* the endpoint fallbackEndpoint with no credential, and when
\* getInClusterConfig succeeds it returns that in-cluster configuration.
C4_DefaultConfigNeverFails ==
    call.op = "getDefaultConfig" =>
        LET inCluster == getInClusterConfig(hasProcess, env, hasFs, files)
        IN  /\ ~ret.threw
            /\ inCluster.threw =>
                  ret.restEndpoint = GivenFallback /\ ret.token = None
            /\ ~inCluster.threw =>
                  /\ ret.restEndpoint = inCluster.restEndpoint
                  /\ ret.token = inCluster.token

\* a token is mounted but no variable is set: the fallback, no credential
C4_Witness ==
    /\ call.op = "getDefaultConfig"
    /\ TokenAvailable
    /\ ~ApiUrl.some /\ ~Host.some
    /\ call.fallback = Some("http://localhost:9000")
    /\ ret.restEndpoint = "http://localhost:9000"
    /\ ret.token = None

\* core is s without its leading and trailing whitespace
IsTrimOf(i, j, s) ==
    /\ i <= j + 1
    /\ \A k \in 1..(i - 1) : IsWhitespace(s[k])
    /\ \A k \in (j + 1)..Len(s) : IsWhitespace(s[k])
    /\ i <= j => ~IsWhitespace(s[i]) /\ ~IsWhitespace(s[j])

\* C5: readServiceAccountToken never raises; on every read failure it
\* returns absent, and when the file is readable it returns the contents
\* with the surrounding whitespace trimmed.
C5_ReadTokenNeverRaises ==
    call.op = "readServiceAccountToken" =>
        LET f == files[GivenPath]
        IN  /\ ~ret.threw
            /\ (~hasFs \/ f.kind # "readable") => ret.str = None
            /\ (hasFs /\ f.kind = "readable") =>
                  /\ ret.str.some
                  /\ \E i \in 1..(Len(f.content) + 1), j \in 0..Len(f.content) :
                        /\ IsTrimOf(i, j, f.content)
                        /\ ret.str.val = Join(SubSeq(f.content, i, j))

C5_Witness ==
    /\ call.op = "readServiceAccountToken"
    /\ hasFs
    /\ files[GivenPath].content = <<" ", "t", "\n">>
    /\ ret.str = Some("t")

----------------------------------------------------------------------------
(* Claims about the transport client, checked under Spec                   *)

Started(id) == calls[id].pc # "idle"
Ended(id) == calls[id].pc = "done"
Sent(id) == calls[id].fetch.called
Bearer == "Bearer " \o client.defaultToken.val
HasCredential == client.defaultToken.some /\ client.defaultToken.val # ""
PerCall(id) ==
    IF calls[id].options.headers.some THEN calls[id].options.headers.val ELSE <<>>

\* C6: the headers sent are the default headers, then Authorization: Bearer
\* <token> when a credential is configured, then the per-call headers of the
\* request; a later layer replaces an earlier one on the same key only, and
\* every header not replaced is kept.
C6_HeaderMergeOrder ==
    \A id \in DOMAIN calls :
        Sent(id) =>
            LET sent == calls[id].fetch.headers
                perCall == PerCall(id)
                defaults == client.defaultHeaders
                auth == IF HasCredential THEN {"Authorization"} ELSE {}
            IN  /\ DOMAIN sent = (DOMAIN defaults) \cup auth \cup (DOMAIN perCall)
                /\ \A k \in DOMAIN perCall : sent[k] = perCall[k]
                /\ \A k \in auth \ DOMAIN perCall : sent[k] = Bearer
                /\ \A k \in (DOMAIN defaults) \ (auth \cup DOMAIN perCall) :
                      sent[k] = defaults[k]

\* default X: a and Y: c, a credential, per-call X: b
C6_Witness ==
    \E id \in DOMAIN calls :
        /\ Sent(id)
        /\ client.defaultHeaders = [k \in {"X", "Y"} |-> IF k = "X" THEN "a" ELSE "c"]
        /\ client.defaultToken = Some("tok")
        /\ calls[id].options.headers = Some([k \in {"X"} |-> "b"])
        /\ calls[id].fetch.headers =
              [k \in {"X", "Y", "Authorization"} |->
                  CASE k = "X" -> "b" [] k = "Y" -> "c"
                    [] k = "Authorization" -> "Bearer tok"]

\* C7: when a call passes an authorization header (in any letter case) on a
\* client configured with a token, every authorization header of the request
\* holds the per-request value and none holds the injected Bearer value.
C7_PerRequestAuthorizationOverrides ==
    \A id \in DOMAIN calls :
        (Sent(id) /\ HasCredential) =>
            \A k \in DOMAIN PerCall(id) :
                LowerName(k) = "authorization" =>
                    \A h \in DOMAIN calls[id].fetch.headers :
                        LowerName(h) = "authorization" =>
                            calls[id].fetch.headers[h] = PerCall(id)[k]

\* C8: after a call has returned or thrown, the timer it started is not
\* pending, and no abort has fired for a call that had already ended.
C8_TimerClearedOnEveryPath ==
    \A id \in DOMAIN calls :
        Ended(id) => calls[id].timer.state # "pending" /\ ~calls[id].lateAbort

\* C9: when the timer fires while the server has not responded, the call is
\* aborted in that step and fails with the abort (timeout) error; a call that
\* failed this way has no response and never turns into a returned value.
C9_TimeoutAbortsCall ==
    [][\A id \in DOMAIN calls :
          /\ (calls[id].pc = "fetch" /\ calls'[id].timer.state = "fired") =>
                /\ calls'[id].aborted
                /\ calls'[id].pc = "done"
                /\ calls'[id].result = Rejected(AbortError)
                /\ ~calls'[id].response.some
          /\ calls[id].result = Rejected(AbortError) =>
                calls'[id].result = Rejected(AbortError) /\ ~calls'[id].response.some
      ]_vars

C9_Witness ==
    \E id \in DOMAIN calls :
        /\ calls[id].timer = [state |-> "fired", delay |-> 2000]
        /\ calls[id].aborted
        /\ ~calls[id].response.some
        /\ Ended(id)
        /\ calls[id].result.kind = "error"
        /\ calls[id].result.error.name = "AbortError"

----------------------------------------------------------------------------
(* Claims about the construction of a request, checked under SpecRequest   *)

Contains(str, part) == IndexFrom(str, part, 1) # 0
Method(id) == calls[id].options.method
SuppliedQuery(id) ==
    IF calls[id].args.query.some THEN calls[id].args.query.val ELSE <<>>

\* the request carries the parameter <<key, value>> in its URL or its body
Carries(id, param) ==
    \/ Contains(calls[id].fetch.url, param[1] \o "=" \o param[2])
    \/ /\ calls[id].fetch.body.some
       /\ Contains(calls[id].fetch.body.val,
                   "\"" \o param[1] \o "\":\"" \o param[2] \o "\"")

\* C12: a non-empty query is appended to the URL exactly when the method is
\* GET or DELETE; for POST, PUT and PATCH the URL has no query string and
\* the parameters are carried in the body, so none is lost.
C12_QueryNeverLost ==
    \A id \in DOMAIN calls :
        Sent(id) =>
            /\ (SuppliedQuery(id) # <<>> /\ Method(id) \in {"GET", "DELETE"}) <=>
                  Contains(calls[id].fetch.url, "?")
            /\ \A i \in 1..Len(SuppliedQuery(id)) : Carries(id, SuppliedQuery(id)[i])

\* C13: GET and DELETE carry no body; POST, PUT and PATCH send the JSON
\* text of the body value; a PATCH with form-encoding sends the URL-encoded
\* form string itself.
C13_BodyEncoding ==
    \A id \in DOMAIN calls :
        (Sent(id) /\ calls[id].args.body.kind # "circular") =>
            LET sent == calls[id].fetch.body
                given == calls[id].args.body
                form == calls[id].args.verb = "patch" /\ calls[id].args.opts.isFormData
            IN  /\ Method(id) \in {"GET", "DELETE"} => ~sent.some
                /\ (Method(id) \in {"POST", "PUT", "PATCH"} /\ ~form) =>
                      sent = (IF given.kind = "object"
                              THEN Some("{\"kind\":\"Pod\"}") ELSE None)
                /\ form =>
                      sent = Some(IF given.kind = "object" THEN "kind=Pod" ELSE "")

ConfiguredTimeout == IF config.timeout.some THEN config.timeout.val ELSE 10000

\* C14 as stated: the delay of the timer is the per-call timeout when the
\* call supplies one, otherwise the timeout given at construction, otherwise
\* 10000.
C14_AsStated ==
    \A id \in DOMAIN calls :
        calls[id].timer.state # "none" =>
            calls[id].timer.delay =
                (IF calls[id].args.opts.timeout.some
                 THEN calls[id].args.opts.timeout.val ELSE ConfiguredTimeout)

\* C14 amended: the delay of the timer is the per-call timeout when the call
\* supplies one other than 0, otherwise the timeout given at construction,
\* otherwise 10000.
C14_EffectiveTimeout ==
    \A id \in DOMAIN calls :
        calls[id].timer.state # "none" =>
            calls[id].timer.delay =
                (IF calls[id].args.opts.timeout.some /\ calls[id].args.opts.timeout.val # 0
                 THEN calls[id].args.opts.timeout.val ELSE ConfiguredTimeout)

\* a per-call timeout of 0 on a client constructed with 5000
C14_Witness ==
    \E id \in DOMAIN calls :
        /\ calls[id].args.opts.timeout = Some(0)
        /\ config.timeout = Some(5000)
        /\ calls[id].timer = [state |-> "pending", delay |-> 5000]

\* C25: the delay given to the timer of every call is greater than 0.
C25_TimerDelayPositive ==
    \A id \in DOMAIN calls :
        calls[id].timer.state # "none" => calls[id].timer.delay > 0

GivenHeaders(id) ==
    IF calls[id].args.opts.headers.some THEN calls[id].args.opts.headers.val ELSE <<>>
OwnContentType(id) == "Content-Type" \in DOMAIN GivenHeaders(id)
FormPatch(id) == calls[id].args.verb = "patch" /\ calls[id].args.opts.isFormData

\* C27: a per-call Content-Type header is the one sent; without one, POST,
\* PUT and PATCH send application/json, a PATCH with form-encoding sends
\* application/x-www-form-urlencoded, and GET and DELETE send none.
C27_ContentType ==
    \A id \in DOMAIN calls :
        Sent(id) =>
            LET sent == calls[id].fetch.headers
                has == "Content-Type" \in DOMAIN sent
            IN  /\ OwnContentType(id) =>
                      (has /\ sent["Content-Type"] = GivenHeaders(id)["Content-Type"])
                /\ (~OwnContentType(id) /\ Method(id) \in {"POST", "PUT", "PATCH"}) =>
                      (has /\ sent["Content-Type"] =
                                 (IF FormPatch(id) THEN "application/x-www-form-urlencoded"
                                  ELSE "application/json"))
                /\ (~OwnContentType(id) /\ Method(id) \in {"GET", "DELETE"}) => ~has

C27_Witness ==
    \E id \in DOMAIN calls :
        /\ Sent(id)
        /\ Method(id) = "POST"
        /\ GivenHeaders(id) = [k \in {"Content-Type"} |-> "application/yaml"]
        /\ calls[id].fetch.headers["Content-Type"] = "application/yaml"

RECURSIVE StripTrailingSlashes(_)
StripTrailingSlashes(str) ==
    IF Len(str) > 0 /\ SubSeq(str, Len(str), Len(str)) = "/"
    THEN StripTrailingSlashes(SubSeq(str, 1, Len(str) - 1)) ELSE str
StripLeadingSlash(str) == IF startsWith(str, "/") THEN Tail(str) ELSE str

\* C28: on an endpoint that begins with '/', the URL up to its query string
\* is the endpoint without its trailing slashes, one '/', and the path
\* without its leading slash.
C28_RelativeJoin ==
    \A id \in DOMAIN calls :
        (Sent(id) /\ startsWith(client.baseUrl, "/")) =>
            LET joined == StripTrailingSlashes(client.baseUrl) \o "/"
                            \o StripLeadingSlash(calls[id].args.endpoint)
                url == calls[id].fetch.url
            IN  url = joined \/ startsWith(url, joined \o "?")

\* C24: every call that has started ends, with a response or a failure.
C24_EveryCallTerminates ==
    (calls["c1"].pc # "idle") ~> (calls["c1"].pc = "done")

----------------------------------------------------------------------------
(* Claims about calls in flight together, checked under SpecConcurrent     *)

Others(id) == DOMAIN calls \ {id}
Untouched(id) == \A o \in Others(id) : calls'[o] = calls[o]

\* C22: a call becomes aborted, or fails with the abort error, only in a step
\* where its own pending timer fires, and the timer of a call is cleared only
\* in a step of that call; such a step leaves every other call as it was.
C22_IndependentTimeouts ==
    [][\A id \in DOMAIN calls :
          /\ (calls'[id].aborted /\ ~calls[id].aborted) =>
                /\ calls[id].timer.state = "pending"
                /\ calls'[id].timer.state = "fired"
                /\ Untouched(id)
          /\ (calls'[id].result = Rejected(AbortError)
                /\ calls[id].result # Rejected(AbortError)) =>
                (calls[id].timer.state = "pending" /\ calls'[id].timer.state = "fired")
          /\ (calls[id].timer.state = "pending" /\ calls'[id].timer.state = "cleared") =>
                (calls'[id].pc # calls[id].pc /\ Untouched(id))]_vars

\* the timer of c1 has aborted c1 while c2 is still awaited with its timer
C22_Witness ==
    /\ calls["c1"].result = Rejected(AbortError)
    /\ calls["c1"].timer.state = "fired"
    /\ calls["c2"].pc = "fetch"
    /\ calls["c2"].timer.state = "pending"
    /\ ~calls["c2"].aborted

ConfiguredHeaders == IF config.headers.some THEN config.headers.val ELSE <<>>

\* C23: the client keeps the endpoint, credential, default headers and default
\* timeout it was constructed with, and the headers a call sends are the
\* configured ones, the Bearer credential, the automatic Content-Type and the
\* call's own per-call headers, whatever the other calls passed.
C23_ConfigurationUnchanged ==
    /\ config = ConcurrentOptions
    /\ client = APIClient(config)
    /\ \A id \in DOMAIN calls :
          Sent(id) =>
             LET sent == calls[id].fetch.headers
                 own == GivenHeaders(id)
                 auto == IF Method(id) \in {"GET", "DELETE"} THEN {} ELSE {"Content-Type"}
             IN  /\ DOMAIN sent =
                       (DOMAIN ConfiguredHeaders) \cup {"Authorization"} \cup auto
                          \cup (DOMAIN own)
                 /\ \A k \in DOMAIN own : sent[k] = own[k]
                 /\ \A k \in (DOMAIN ConfiguredHeaders) \ (DOMAIN own) :
                       sent[k] = ConfiguredHeaders[k]

\* c1 passed X: b and then c2, which passed no header, sent the configured X: a
C23_Witness ==
    /\ Ended("c1")
    /\ Sent("c1") /\ Sent("c2")
    /\ GivenHeaders("c1") = [k \in {"X"} |-> "b"]
    /\ calls["c1"].fetch.headers["X"] = "b"
    /\ GivenHeaders("c2") = <<>>
    /\ calls["c2"].fetch.headers["X"] = "a"
    /\ client = APIClient(ConcurrentOptions)

----------------------------------------------------------------------------
(* Claims about the apply command, checked under SpecApply                  *)

\* the documents of the manifest in document order
Batch ==
    IF manifest.content.isArray THEN manifest.content.array
    ELSE IF manifest.content.doc.kind = Some("List") /\ manifest.content.doc.items.isArray
         THEN manifest.content.doc.items.val
    ELSE <<manifest.content.doc>>

\* the handler read and parsed the manifest
Parsed == run.pc # "start" /\ Truthy(argv.f) /\ manifest.file = "ok"
Completed == Parsed /\ run.pc = "done"

LinesOf(j) == SelectSeq(run.log, LAMBDA l : l.doc = j)
OpsOf(j) == SelectSeq(run.ops, LAMBDA o : o.doc = j)
LineNames(lines) == [k \in 1..Len(lines) |-> lines[k].line]
Attempted(j) == LinesOf(j) # <<>>
Handled(j) == j < run.i \/ run.pc = "done"

\* one outcome per document: created, not implemented, or failed
OutcomeNames == {"created", "notImplemented", "failedToApply"}
Outcomes == SelectSeq(run.log, LAMBDA l : l.line \in OutcomeNames)

\* C15: a document without metadata.name alone fails, with the message
\* 'Resource must have a name' when it has a kind, no operation is invoked
\* for it and no progress line is written; every other document of the batch
\* is still attempted.
C15_NamelessDocumentFailsAlone ==
    Parsed =>
      /\ \A j \in 1..Len(Batch) :
            (~Truthy(NameOf(Batch[j])) /\ Handled(j)) =>
               /\ LinesOf(j) =
                     <<Line("error", "red", "failedToApply", j,
                            IF Batch[j].kind.some THEN "Resource must have a name"
                            ELSE "TypeError")>>
               /\ OpsOf(j) = <<>>
      /\ run.pc = "done" =>
            /\ \A j \in 1..Len(Batch) : Attempted(j)
            /\ run.log[Len(run.log)].line = "completed"

C15_Witness ==
    /\ Completed
    /\ Len(Batch) = 3
    /\ manifest.content.isArray
    /\ Batch[2] = Document(Some("ConfigMap"), NoMetadata)
    /\ LineNames(Outcomes) = <<"created", "failedToApply", "created">>
    /\ Len(run.ops) = 2

\* C16: a create operation that rejects is reported with two error lines for
\* its own document, and the loop goes on: at the end every document of the
\* batch was attempted and the summary line was written.
C16_TransportFailureCaughtPerResource ==
    Parsed =>
      /\ \A k \in 1..Len(run.ops) :
            run.ops[k].state = "rejected" =>
               /\ Handled(run.ops[k].doc)
               /\ LineNames(LinesOf(run.ops[k].doc)) =
                     <<"applying", "errorApplying", "failedToApply">>
               /\ \A l \in 2..3 : LinesOf(run.ops[k].doc)[l].stream = "error"
               /\ run.pc # "done" => run.i > run.ops[k].doc
      /\ run.pc = "done" =>
            /\ \A j \in 1..Len(Batch) : Attempted(j)
            /\ run.log[Len(run.log)].line = "completed"

C16_Witness ==
    /\ Completed
    /\ Len(run.ops) >= 2
    /\ run.ops[1].state = "rejected"
    /\ run.ops[Len(run.ops)].state = "resolved"
    /\ run.ops[Len(run.ops)].doc = Len(Batch)

\* C17: when the handler ends, the outcomes are as many as the documents of
\* the batch and the i-th outcome is that of the i-th document.
C17_OneOutcomePerDocumentInOrder ==
    Completed =>
      /\ Len(Outcomes) = Len(Batch)
      /\ \A j \in 1..Len(Outcomes) : Outcomes[j].doc = j

C17_Witness ==
    /\ Completed
    /\ manifest.content = SingleContent(ListDocument(Some("List"), ItemsArray(ThreeItems)))
    /\ Len(Outcomes) = 3
    /\ \A j \in 1..3 : Outcomes[j].doc = j

\* C18: the resources are the parsed sequence itself, or the items of a single
\* document of kind 'List' that has an items sequence, or else the single
\* document alone.
C18_Normalization ==
    Parsed =>
      LET content == manifest.content
          isList == content.doc.kind = Some("List") /\ content.doc.items.isArray
      IN  /\ content.isArray => run.resources = content.array
          /\ (~content.isArray /\ isList) => run.resources = content.doc.items.val
          /\ (~content.isArray /\ ~isList) => run.resources = <<content.doc>>

C18_Witness ==
    /\ Completed
    /\ manifest.content = SingleContent(ListDocument(Some("List"), ItemsMapping))
    /\ run.resources = <<ListDocument(Some("List"), ItemsMapping)>>
    /\ LineNames(Outcomes) = <<"failedToApply">>

\* the namespace the operation and the progress line of document j were given
UsedNamespace(j) == LinesOf(j)[1].text
Applying(j) == LinesOf(j) # <<>> /\ LinesOf(j)[1].line = "applying"
Flag == IF argv.n.some THEN argv.n ELSE argv.namespace

Unsupported(doc) ==
    /\ doc.kind.some
    /\ Truthy(NameOf(doc))
    /\ toLowerCase(doc.kind.val) \notin
          {"deployment", "service", "pod", "configmap", "secret"}

\* C20: a named document of an unsupported kind gets the progress line and a
\* 'not implemented' line on the standard stream, no error line and no
\* operation, and the loop goes on to the next document.
C20_UnknownKindNotImplemented ==
    Parsed =>
      /\ \A j \in 1..Len(Batch) :
            (Unsupported(Batch[j]) /\ Handled(j)) =>
               /\ LineNames(LinesOf(j)) = <<"applying", "notImplemented">>
               /\ \A l \in 1..2 : LinesOf(j)[l].stream = "log"
               /\ LinesOf(j)[2].colour = "yellow"
               /\ OpsOf(j) = <<>>
               /\ run.pc # "done" => run.i > j
      /\ run.pc = "done" =>
            /\ \A j \in 1..Len(Batch) : Attempted(j)
            /\ run.log[Len(run.log)].line = "completed"

C20_Witness ==
    /\ Completed
    /\ Len(Batch) = 2
    /\ Unsupported(Batch[1])
    /\ LineNames(Outcomes) = <<"notImplemented", "created">>
    /\ Len(run.ops) = 1

\* C21: an operation is started only when every earlier operation of the
\* batch has resolved or rejected, so at most one is pending at a time, and
\* the operations are started in document order.
C21_SequentialDispatch ==
    Parsed =>
      /\ \A k \in 1..Len(run.ops) :
            run.ops[k].state = "pending" => (k = Len(run.ops) /\ run.pc = "await")
      /\ \A k \in 1..(Len(run.ops) - 1) : run.ops[k].doc < run.ops[k + 1].doc
      /\ run.pc = "await" =>
            (run.ops # <<>> /\ run.ops[Len(run.ops)].state = "pending")

C21_Witness ==
    /\ Parsed
    /\ run.pc = "await"
    /\ Len(run.ops) = 3
    /\ run.ops[1].state = "rejected"
    /\ run.ops[2].state = "resolved"
    /\ run.ops[3].state = "pending"

\* a named document whose kind, in any letter case, is one of the five
Supported(doc) ==
    /\ doc.kind.some
    /\ Truthy(NameOf(doc))
    /\ \E k \in {"Deployment", "Service", "Pod", "ConfigMap", "SECRET"} :
          doc.kind.val = k

CreateOf(kind) ==
    CASE kind \in {"Deployment"} -> "createAppsV1NamespacedDeployment"
      [] kind \in {"Service"} -> "createCoreV1NamespacedService"
      [] kind \in {"Pod"} -> "createCoreV1NamespacedPod"
      [] kind \in {"ConfigMap"} -> "createCoreV1NamespacedConfigMap"
      [] kind \in {"SECRET"} -> "createCoreV1NamespacedSecret"

\* C26: a named document of one of the five kinds, in any letter case, causes
\* exactly one create operation: the one of its kind, with the document as
\* body, the namespace of its progress line and the field manager
\* 'kubernetesjs-cli'; no document causes more than one operation.
C26_OneMappedOperationPerDocument ==
    Parsed =>
      \A j \in 1..Len(Batch) :
         /\ Len(OpsOf(j)) <= 1
         /\ OpsOf(j) # <<>> => Supported(Batch[j])
         /\ (Supported(Batch[j]) /\ Handled(j)) =>
               /\ Len(OpsOf(j)) = 1
               /\ OpsOf(j)[1].op = CreateOf(Batch[j].kind.val)
               /\ OpsOf(j)[1].body = Batch[j]
               /\ OpsOf(j)[1].namespace = UsedNamespace(j)
               /\ OpsOf(j)[1].fieldManager = "kubernetesjs-cli"

C26_Witness ==
    /\ Completed
    /\ Len(Batch) = 2
    /\ Batch[1].kind = Some("SECRET")
    /\ Batch[2].kind = Some("Service")
    /\ Len(run.ops) = 2
    /\ run.ops[1].op = "createCoreV1NamespacedSecret"
    /\ run.ops[2].op = "createCoreV1NamespacedService"
    /\ run.ops[2].namespace = "prod"

Count(lines, names) == Len(SelectSeq(lines, LAMBDA l : l.line \in names))
Summary == SelectSeq(run.log, LAMBDA l : l.line = "completed")

\* C29 as stated: one progress line and one outcome line for every resource,
\* and one summary line at the end.
C29_AsStated ==
    Completed =>
      /\ \A j \in 1..Len(Batch) :
            /\ Count(LinesOf(j), {"applying"}) = 1
            /\ Count(LinesOf(j), OutcomeNames) = 1
      /\ Len(Summary) = 1
      /\ run.log[Len(run.log)].line = "completed"

\* C29: every resource gets exactly one outcome line; a resource with a kind
\* and a name gets exactly one progress line before it and a resource without
\* one of them gets none; a rejected operation adds one 'Error applying' line
\* before the outcome line; the summary line is written once, last.
C29_LinesPerResource ==
    Completed =>
      /\ \A j \in 1..Len(Batch) :
            LET valid == Batch[j].kind.some /\ Truthy(NameOf(Batch[j]))
                rejected == OpsOf(j) # <<>> /\ OpsOf(j)[1].state = "rejected"
            IN  /\ Count(LinesOf(j), OutcomeNames) = 1
                /\ Count(LinesOf(j), {"applying"}) = (IF valid THEN 1 ELSE 0)
                /\ Count(LinesOf(j), {"errorApplying"}) = (IF rejected THEN 1 ELSE 0)
                /\ Len(LinesOf(j)) = (IF valid THEN 2 ELSE 1) + (IF rejected THEN 1 ELSE 0)
                /\ valid => LinesOf(j)[1].line = "applying"
                /\ LinesOf(j)[Len(LinesOf(j))].line \in OutcomeNames
      /\ Len(Summary) = 1
      /\ run.log[Len(run.log)].line = "completed"

C29_Witness ==
    /\ Completed
    /\ LineNames(run.log) =
          <<"applying", "created", "failedToApply",
            "applying", "errorApplying", "failedToApply", "completed">>

IsErrorLine(l) == l.stream = "error" /\ l.colour = "red"
LastLine == run.log[Len(run.log)]
Applied == argv.command = "apply"
Described == argv.command = "describe"

\* C30: neither handler throws, and a handler that has ended after a failure
\* has written an error line for it: for a missing path, a missing or
\* unparsable file, a document without kind or name, a rejected operation
\* (every operation, when the endpoint is missing), a response that cannot be
\* printed.
C30_NoFailureEscapes ==
    /\ ~(run.pc = "start") => ~run.threw
    /\ (run.pc = "done" /\ Applied /\ ~Parsed) =>
          (Len(run.log) = 1 /\ IsErrorLine(run.log[1]))
    /\ (Applied /\ Parsed) =>
          \A j \in 1..Len(Batch) :
             (Handled(j) /\ (~Batch[j].kind.some \/ ~Truthy(NameOf(Batch[j]))
                              \/ (OpsOf(j) # <<>> /\ OpsOf(j)[1].state = "rejected")
                              \/ (Supported(Batch[j]) /\ ~argv.clientUrl.some))) =>
                (LinesOf(j) # <<>> /\ IsErrorLine(LinesOf(j)[Len(LinesOf(j))]))
    /\ (run.pc = "done" /\ Described) =>
          \A k \in 1..Len(run.ops) :
             (run.ops[k].state = "rejected" \/ ~run.ops[k].readable) =>
                (k = Len(run.ops) /\ IsErrorLine(LastLine))

C30_Witness ==
    /\ Completed
    /\ ~argv.clientUrl.some
    /\ Len(Batch) = 3
    /\ Supported(Batch[1])
    /\ ~Batch[2].kind.some
    /\ Supported(Batch[3])
    /\ Len(run.ops) = 2
    /\ \A j \in 1..3 : IsErrorLine(LinesOf(j)[Len(LinesOf(j))])
    /\ ~run.threw

====
